---- MODULE Spec2Model ----
(***************************************************************************)
(* Model of the numerics package of the Tideland Common Go Library         *)
(* (src/numerics/numerics.go): Points, PolynomialFunction,                 *)
(* CubicSplineFunction, LeastSquaresFunction and the evalPoints helper,    *)
(* and of the assert package (src/assert/assert.go).                       *)
(*                                                                         *)
(* A float64 is modelled as a pair <<n, d>>: the exact rational n/d in     *)
(* lowest terms with d > 0, or one of the IEEE-754 special values          *)
(* <<0,0>> (NaN), <<1,0>> (+Inf), <<-1,0>> (-Inf).  Rounding, underflow    *)
(* and the sign of zero are not modelled: arithmetic on finite values is   *)
(* exact.                                                                  *)
(*                                                                         *)
(* A Go slice of float64 is an address into heap, so that two holders of   *)
(* the same slice see each other's writes.                                 *)
(***************************************************************************)
EXTENDS Integers, Sequences, FiniteSets

VARIABLES
    mode,      \* which component the client drives: "points", "spline", "poly", "lsf", "assert"
    points,    \* Points.points of the client's point set
    heap,      \* backing arrays of the []float64 slices, by address
    csf,       \* the *CubicSplineFunction returned to the client, or Nil
    build,     \* locals of a running NewCubicSplineFunction, or Nil
    pf,        \* the *PolynomialFunction of the client, or Nil
    lsf,       \* the LeastSquaresFunction of the client
    lsfPts,    \* history: the points appended to lsf
    lsfAppended, \* history: how many points were appended to lsf
    sample,    \* locals of a running evalPoints, or Nil
    assertObj, \* the *Assert of the client, or Nil
    ret        \* the last call: [op, arg, val, panic]

vars == <<mode, points, heap, csf, build, pf, lsf, lsfPts, lsfAppended, sample, assertObj, ret>>

\* ------------------------------------------------------------------ bounds

MaxPts == 4       \* most points in the client's point set
MaxX == 3         \* x coordinates of appended points are 0..MaxX
MaxCoef == 3      \* most coefficients of a client polynomial
MaxCount == 4     \* most points appended to a least squares function
MaxSamples == 6   \* most iterations of the evalPoints loop that are followed

Nil == [nil |-> TRUE]
NoRet == [op |-> "none", arg |-> <<>>, val |-> <<>>, panic |-> FALSE]

\* ------------------------------------------------------------------ float64

NaN == <<0, 0>>
PosInf == <<1, 0>>
NegInf == <<-1, 0>>

Abs(n) == IF n < 0 THEN -n ELSE n
Sgn(n) == IF n > 0 THEN 1 ELSE IF n < 0 THEN -1 ELSE 0

RECURSIVE Gcd(_, _)
Gcd(a, b) == IF b = 0 THEN a ELSE Gcd(b, a % b)

\* The float64 with value n/d (d = 0 gives the special value of n's sign).
Norm(n, d) ==
    IF d = 0 THEN <<Sgn(n), 0>>
    ELSE LET g == Gcd(Abs(n), Abs(d))
             s == IF d < 0 THEN -1 ELSE 1
         IN  <<(s * n) \div g, (s * d) \div g>>

F(n) == <<n, 1>>

IsNaN(a) == a = NaN
IsInf(a) == a[2] = 0 /\ a[1] # 0

FNeg(a) == <<-a[1], a[2]>>

FAdd(a, b) ==
    IF IsNaN(a) \/ IsNaN(b) THEN NaN
    ELSE IF a[2] = 0 /\ b[2] = 0 THEN (IF a[1] = b[1] THEN a ELSE NaN)
    ELSE IF a[2] = 0 THEN a
    ELSE IF b[2] = 0 THEN b
    ELSE Norm(a[1] * b[2] + b[1] * a[2], a[2] * b[2])

FSub(a, b) == FAdd(a, FNeg(b))

FMul(a, b) ==
    IF IsNaN(a) \/ IsNaN(b) THEN NaN
    ELSE IF a[2] = 0 \/ b[2] = 0
         THEN (IF a[1] = 0 \/ b[1] = 0 THEN NaN ELSE <<Sgn(a[1]) * Sgn(b[1]), 0>>)
    ELSE Norm(a[1] * b[1], a[2] * b[2])

FDiv(a, b) ==
    IF IsNaN(a) \/ IsNaN(b) THEN NaN
    ELSE IF a[2] = 0
         THEN (IF b[2] = 0 THEN NaN ELSE <<a[1] * (IF b[1] < 0 THEN -1 ELSE 1), 0>>)
    ELSE IF b[2] = 0 THEN F(0)
    ELSE IF b[1] = 0 THEN (IF a[1] = 0 THEN NaN ELSE <<Sgn(a[1]), 0>>)
    ELSE Norm(a[1] * b[2], a[2] * b[1])

\* a < b; false when either is NaN.
FLt(a, b) ==
    IF IsNaN(a) \/ IsNaN(b) THEN FALSE
    ELSE IF a[2] = 0 \/ b[2] = 0
         THEN (IF a[2] = 0 /\ b[2] = 0 THEN a[1] < b[1]
               ELSE IF a[2] = 0 THEN a[1] < 0
               ELSE b[1] > 0)
    ELSE a[1] * b[2] < b[1] * a[2]

FEq(a, b) == ~IsNaN(a) /\ ~IsNaN(b) /\ a = b
FLe(a, b) == FLt(a, b) \/ FEq(a, b)
FGt(a, b) == FLt(b, a)

FAbs(a) == <<Abs(a[1]), a[2]>>

\* ------------------------------------------------------------------ Point, Points

NewPoint(x, y) == [x |-> x, y |-> y]

\* ps.points[idx], idx counted from 0 as in the source.
At(ps, idx) == ps[idx + 1]
XAt(ps, idx) == At(ps, idx).x
YAt(ps, idx) == At(ps, idx).y
XDifference(ps, idxA, idxB) == FSub(XAt(ps, idxA), XAt(ps, idxB))
YDifference(ps, idxA, idxB) == FSub(YAt(ps, idxA), YAt(ps, idxB))

\* The scan of XInRange over ps.points[1:], from index i on.
RECURSIVE XRangeScan(_, _, _, _)
XRangeScan(ps, i, minX, maxX) ==
    IF i >= Len(ps) THEN <<minX, maxX>>
    ELSE LET px == XAt(ps, i)
             mn == IF FLt(px, minX) THEN px ELSE minX
             mx == IF FGt(px, maxX) THEN px ELSE maxX
         IN  XRangeScan(ps, i + 1, mn, mx)

\* Faulty variant: the bounds of the range are excluded.
XInRangeStrict(ps, x) ==
    LET r == XRangeScan(ps, 1, XAt(ps, 0), XAt(ps, 0))
    IN  FLt(r[1], x) /\ FLt(x, r[2])

\* Faulty variant: the set is taken as sorted, the range as first point to last point.
XInRangeEnds(ps, x) ==
    FLe(XAt(ps, 0), x) /\ FLe(x, XAt(ps, Len(ps) - 1))

\* Points.XInRange on a set of at least one point.
XInRange(ps, x) ==
    LET r == XRangeScan(ps, 1, XAt(ps, 0), XAt(ps, 0))
    IN  FLe(r[1], x) /\ FLe(x, r[2])

\* sort.Search(n, f) with f(h) = x < ps.points[h].X(): the loop from i, j on.
RECURSIVE SearchLoop(_, _, _, _)
SearchLoop(ps, x, i, j) ==
    IF i < j
    THEN LET h == (i + j) \div 2
         IN  IF ~FLt(x, XAt(ps, h))
             THEN SearchLoop(ps, x, h + 1, j)
             ELSE SearchLoop(ps, x, i, h)
    ELSE i

\* Faulty variant: the search predicate is x <= ps.points[h].X().
RECURSIVE SearchLoopLe(_, _, _, _)
SearchLoopLe(ps, x, i, j) ==
    IF i < j
    THEN LET h == (i + j) \div 2
         IN  IF ~FLe(x, XAt(ps, h))
             THEN SearchLoopLe(ps, x, h + 1, j)
             ELSE SearchLoopLe(ps, x, i, h)
    ELSE i

SearchNextIndexLe(ps, x) == SearchLoopLe(ps, x, 0, Len(ps))

SearchNextIndex(ps, x) == SearchLoop(ps, x, 0, Len(ps))

\* The functions the client passes to Map: each yields nil or a new point,
\* never the point it was given.
MapFuncs == {"none", "raise", "raiseFromX1", "mirrorBelowX2"}
ApplyMapFunc(f, point) ==
    CASE f = "none" -> Nil
      [] f = "raise" -> NewPoint(point.x, FAdd(point.y, F(1)))
      [] f = "raiseFromX1" -> IF FLt(point.x, F(1)) THEN Nil
                              ELSE NewPoint(point.x, FAdd(point.y, F(1)))
      [] f = "mirrorBelowX2" -> IF FLt(point.x, F(2)) THEN NewPoint(FNeg(point.x), point.y)
                                ELSE Nil

\* The loop of Points.Map from index i on: the slice built so far and the
\* arguments f was called with so far.
RECURSIVE MapLoopAppendsMapped(_, _, _, _, _)
MapLoopAppendsMapped(ps, f, i, pts, calls) ==
    IF i >= Len(ps) THEN [points |-> pts, calls |-> calls]
    ELSE LET point == At(ps, i)
             np == ApplyMapFunc(f, point)
         IN  MapLoopAppendsMapped(ps, f, i + 1,
                                  IF np # Nil THEN Append(pts, np) ELSE pts,
                                  Append(calls, point))

\* Faulty variant: the mapped point np is collected instead of the original.
MapAppendsMapped(ps, f) == MapLoopAppendsMapped(ps, f, 0, <<>>, <<>>)

RECURSIVE MapLoop(_, _, _, _, _)
MapLoop(ps, f, i, pts, calls) ==
    IF i >= Len(ps) THEN [points |-> pts, calls |-> calls]
    ELSE LET point == At(ps, i)
             np == ApplyMapFunc(f, point)
         IN  MapLoop(ps, f, i + 1,
                     IF np # Nil THEN Append(pts, point) ELSE pts,
                     Append(calls, point))

\* Points.Map(f): the points of the returned set and the calls of f it made.
Map(ps, f) == MapLoop(ps, f, 0, <<>>, <<>>)

\* ------------------------------------------------------------------ PolynomialFunction

\* Faulty variant: a polynomial needs two coefficients.
NewPolynomialFunctionTwo(h, a) ==
    IF Len(h[a]) < 2 THEN Nil ELSE [coefficients |-> a]

\* NewPolynomialFunction on the slice at address a of heap h: the object keeps
\* the caller's slice, it does not copy it.
NewPolynomialFunction(h, a) ==
    IF Len(h[a]) < 1 THEN Nil ELSE [coefficients |-> a]

\* The loop of PolynomialFunction.Eval from index i (counted from 0) down.
RECURSIVE HornerLoop(_, _, _, _)
HornerLoop(coefficients, x, i, result) ==
    IF i >= 0
    THEN HornerLoop(coefficients, x, i - 1,
                    FAdd(FMul(x, result), coefficients[i + 1]))
    ELSE result

\* Faulty variant: the loop stops before the constant coefficient (i > 0).
PolyEvalSkipsConstant(coefficients, x) ==
    LET n == Len(coefficients)
        high == Tail(coefficients)
    IN  IF n = 1 THEN coefficients[1]
        ELSE HornerLoop(high, x, n - 3, high[n - 1])

\* PolynomialFunction.Eval on the coefficients c[0..n-1] (here a sequence).
PolyEval(coefficients, x) ==
    LET n == Len(coefficients)
    IN  HornerLoop(coefficients, x, n - 2, coefficients[n])

\* Faulty variant: the factor is i - 1 instead of i.
DifferentiateOffByOne(coefficients) ==
    LET n == Len(coefficients)
    IN  IF n = 1 THEN <<F(0)>>
        ELSE [k \in 1..(n - 1) |-> FMul(F(k - 1), coefficients[k + 1])]

\* The new coefficients PolynomialFunction.Differentiate computes.
Differentiate(coefficients) ==
    LET n == Len(coefficients)
    IN  IF n = 1 THEN <<F(0)>>
        ELSE [k \in 1..(n - 1) |-> FMul(F(k), coefficients[k + 1])]

\* ------------------------------------------------------------------ CubicSplineFunction

Zeros(k) == [i \in 0..(k - 1) |-> F(0)]

Differences(ps) == [i \in 0..(Len(ps) - 2) |-> XDifference(ps, i + 1, i)]

\* The forward elimination loop of NewCubicSplineFunction, from i on: <<mu, z>>.
RECURSIVE ForwardLoop(_, _, _, _, _)
ForwardLoop(ps, differences, i, mu, z) ==
    IF i < Len(ps) - 1
    THEN LET g == FSub(FMul(F(2), XDifference(ps, i + 1, i - 1)),
                       FMul(differences[i - 1], mu[i - 1]))
             t == FAdd(FSub(FMul(YAt(ps, i + 1), differences[i - 1]),
                            FMul(YAt(ps, i), XDifference(ps, i + 1, i - 1))),
                       FMul(YAt(ps, i - 1), differences[i]))
             zi == FDiv(FSub(FDiv(FMul(F(3), t),
                                  FMul(differences[i - 1], differences[i])),
                             FMul(differences[i - 1], z[i - 1])),
                        g)
         IN  ForwardLoop(ps, differences, i + 1,
                         [mu EXCEPT ![i] = FDiv(differences[i], g)],
                         [z EXCEPT ![i] = zi])
    ELSE <<mu, z>>

\* The back substitution loop of NewCubicSplineFunction, from i down: <<b, c, d>>.
RECURSIVE BackLoop(_, _, _, _, _, _, _, _)
BackLoop(ps, differences, mu, z, i, b, c, d) ==
    IF i >= 0
    THEN LET ci == FSub(z[i], FMul(mu[i], c[i + 1]))
             bi == FSub(FDiv(YDifference(ps, i + 1, i), differences[i]),
                        FDiv(FMul(differences[i],
                                  FAdd(c[i + 1], FMul(F(2), ci))),
                             F(3)))
             di == FDiv(FSub(c[i + 1], ci), FMul(F(3), differences[i]))
         IN  BackLoop(ps, differences, mu, z, i - 1,
                      [b EXCEPT ![i] = bi],
                      [c EXCEPT ![i] = ci],
                      [d EXCEPT ![i] = di])
    ELSE <<b, c, d>>

\* The coefficient arrays b, c, d of NewCubicSplineFunction for the points ps.
SplineCoefficients(ps) ==
    LET intervals == Len(ps) - 1
        differences == Differences(ps)
        muz == ForwardLoop(ps, differences, 1, Zeros(intervals), Zeros(Len(ps)))
    IN  BackLoop(ps, differences, muz[1], muz[2], intervals - 1,
                 Zeros(intervals), Zeros(Len(ps)), Zeros(intervals))

\* Faulty variant: the domain check reads the first len(polynomials)+1 points,
\* the number of knots the spline was built from.
CsfEvalChecksBuiltKnots(h, f, ps, x) ==
    LET n == Cardinality(DOMAIN f.polynomials)
    IN  IF ~XInRange(SubSeq(ps, 1, n + 1), x)
        THEN [panic |-> TRUE, val |-> <<>>]
        ELSE LET found == SearchNextIndex(ps, x)
                 idx == IF found >= n THEN n - 1 ELSE found
             IN  [panic |-> FALSE,
                  val |-> PolyEval(h[f.polynomials[idx].coefficients],
                                   FSub(x, XAt(ps, idx)))]

\* CubicSplineFunction.Eval: [panic, val].
CsfEval(h, f, ps, x) ==
    IF ~XInRange(ps, x)
    THEN [panic |-> TRUE, val |-> <<>>]
    ELSE LET n == Cardinality(DOMAIN f.polynomials)
             found == SearchNextIndex(ps, x)
             idx == IF found >= n THEN n - 1 ELSE found
         IN  [panic |-> FALSE,
              val |-> PolyEval(h[f.polynomials[idx].coefficients],
                               FSub(x, XAt(ps, idx)))]


\* ------------------------------------------------------------------ LeastSquaresFunction

\* new(LeastSquaresFunction)
NewLsf == [sumX |-> F(0), sumXX |-> F(0), sumY |-> F(0), sumYY |-> F(0),
           sumXY |-> F(0), xBar |-> F(0), yBar |-> F(0), count |-> 0]

\* Faulty variant: sumXX grows by dx*dx, without the weight count/(count+1).
LsfAppendPointUnweighted(l, x, y) ==
    LET k == F(l.count)
        k1 == F(l.count + 1)
        dx == FSub(x, l.xBar)
        dy == FSub(y, l.yBar)
        first == l.count = 0
    IN  [sumXX |-> IF first THEN l.sumXX ELSE FAdd(l.sumXX, FMul(dx, dx)),
         sumYY |-> IF first THEN l.sumYY
                   ELSE FAdd(l.sumYY, FDiv(FMul(FMul(dy, dy), k), k1)),
         sumXY |-> IF first THEN l.sumXY
                   ELSE FAdd(l.sumXY, FDiv(FMul(FMul(dx, dy), k), k1)),
         xBar |-> IF first THEN x ELSE FAdd(l.xBar, FDiv(dx, k1)),
         yBar |-> IF first THEN y ELSE FAdd(l.yBar, FDiv(dy, k1)),
         sumX |-> FAdd(l.sumX, x),
         sumY |-> FAdd(l.sumY, y),
         count |-> l.count + 1]

\* LeastSquaresFunction.AppendPoint(x, y) on the accumulators l.
LsfAppendPoint(l, x, y) ==
    LET point == NewPoint(x, y)
        k == F(l.count)
        k1 == F(l.count + 1)
        dx == FSub(point.x, l.xBar)
        dy == FSub(point.y, l.yBar)
        first == l.count = 0
    IN  [sumXX |-> IF first THEN l.sumXX
                   ELSE FAdd(l.sumXX, FDiv(FMul(FMul(dx, dx), k), k1)),
         sumYY |-> IF first THEN l.sumYY
                   ELSE FAdd(l.sumYY, FDiv(FMul(FMul(dy, dy), k), k1)),
         sumXY |-> IF first THEN l.sumXY
                   ELSE FAdd(l.sumXY, FDiv(FMul(FMul(dx, dy), k), k1)),
         xBar |-> IF first THEN point.x ELSE FAdd(l.xBar, FDiv(dx, k1)),
         yBar |-> IF first THEN point.y ELSE FAdd(l.yBar, FDiv(dy, k1)),
         sumX |-> FAdd(l.sumX, point.x),
         sumY |-> FAdd(l.sumY, point.y),
         count |-> l.count + 1]

\* Faulty variant: the first point of the set is skipped.
RECURSIVE LsfAppendPointsLoop(_, _, _)
LsfAppendPointsLoop(l, pts, i) ==
    IF i >= Len(pts.points) THEN l
    ELSE LsfAppendPointsLoop(LsfAppendPoint(l, XAt(pts.points, i), YAt(pts.points, i)),
                             pts, i + 1)

LsfAppendPointsSkipsFirst(l, pts) == LsfAppendPointsLoop(l, pts, 1)

\* LeastSquaresFunction.AppendPoints(points): points.Do calls AppendPoint for
\* each point of the set, in order.
LsfAppendPoints(l, pts) == LsfAppendPointsLoop(l, pts, 0)

\* NewLeastSquaresFunction(points), points being nil or a set.
NewLeastSquaresFunction(pts) ==
    IF pts # Nil THEN LsfAppendPoints(NewLsf, pts) ELSE NewLsf

\* a < 10*math.SmallestNonzeroFloat64 for a >= 0: the threshold (about 5e-323)
\* is below every non-zero magnitude the exact arithmetic of the model
\* produces, so only zero is under it.
BelowSlopeThreshold(a) == a = F(0)

\* Faulty variant: the variation test reads sumYY.
SlopeTestsSumYY(l) ==
    IF l.count < 2 THEN NaN
    ELSE IF BelowSlopeThreshold(FAbs(l.sumYY)) THEN NaN
    ELSE FDiv(l.sumXY, l.sumXX)

\* LeastSquaresFunction.slope()
Slope(l) ==
    IF l.count < 2 THEN NaN
    ELSE IF BelowSlopeThreshold(FAbs(l.sumXX)) THEN NaN
    ELSE FDiv(l.sumXY, l.sumXX)

\* LeastSquaresFunction.intercept(slope)
Intercept(l, slope) == FDiv(FSub(l.sumY, FMul(slope, l.sumX)), F(l.count))

\* LeastSquaresFunction.Eval(x)
LsfEval(l, x) ==
    LET slope == Slope(l)
    IN  FAdd(Intercept(l, slope), FMul(slope, x))

\* LeastSquaresFunction.EvalPoint(x)
LsfEvalPoint(l, x) == NewPoint(x, LsfEval(l, x))

\* ------------------------------------------------------------------ evalPoints

\* int(a) for a finite float64: truncation toward zero.
Trunc(a) == IF a[1] >= 0 THEN a[1] \div a[2] ELSE -((-a[1]) \div a[2])

\* (toX - fromX) / float64(count)
Interval(fromX, toX, count) == FDiv(FSub(toX, fromX), F(count))

\* Faulty variant: the loop condition is x <= toX.
SampleContinuesInclusive(s) == FLe(s.x, s.toX)

\* The loop condition of evalPoints, x < toX, on the locals s.
SampleContinues(s) == FLt(s.x, s.toX)

\* ------------------------------------------------------------------ assert

\* A Go value held in an interface{}: its dynamic type and its content.  The
\* nil interface has no dynamic type.
Value(t, v) == [type |-> t, val |-> v]
NilInterface == Value("nil", "nil")

\* reflect.Kind of a type.
KindOf(t) ==
    CASE t = "nil" -> "invalid"
      [] t \in {"bool", "int", "string"} -> t
      [] t \in {"*bool", "*errors.errorString", "*error", "*io.Writer"} -> "ptr"
      [] t \in {"error", "io.Writer"} -> "interface"
      [] OTHER -> "struct"

\* reflect.Type.Elem of a pointer type.
ElemOf(t) ==
    CASE t = "*bool" -> "bool"
      [] t = "*errors.errorString" -> "errors.errorString"
      [] t = "*error" -> "error"
      [] t = "*io.Writer" -> "io.Writer"
      [] OTHER -> "nil"

\* The method set of a type.
MethodSet(t) ==
    CASE t \in {"*errors.errorString", "error"} -> {"Error"}
      [] t = "io.Writer" -> {"Write"}
      [] OTHER -> {}

\* reflect.Type.Implements(u) for an interface type u.
TypeImplements(t, u) == MethodSet(u) \subseteq MethodSet(t)

\* reflect.Type.AssignableTo(u) among the types above, none of which is an
\* interface type when it is the dynamic type of a value: identical types.
TypeAssignableTo(t, u) == t = u

\* reflect.DeepEqual
DeepEqual(x, y) == IF x.type # y.type THEN FALSE ELSE x.val = y.val

\* isNil(value)
IsNil(value) ==
    IF value = NilInterface THEN TRUE
    ELSE IF KindOf(value.type) \in {"chan", "func", "interface", "map", "ptr", "slice"}
         THEN value.val = "nil"
    ELSE FALSE

\* The characters of the strings and regular expressions the client uses.
Chars(s) ==
    CASE s = "" -> <<>>
      [] s = "b" -> <<"b">>
      [] s = "ab" -> <<"a", "b">>
      [] s = "aab" -> <<"a", "a", "b">>
      [] s = "a." -> <<"a", ".">>
      [] s = "a*b" -> <<"a", "*", "b">>
      [] s = ".*" -> <<".", "*">>
      [] s = "(ab" -> <<"(", "a", "b">>

\* regexp.Compile fails on a group that is not closed or not opened.
RECURSIVE GroupDepth(_, _, _)
GroupDepth(re, i, depth) ==
    IF i > Len(re) \/ depth < 0 THEN depth
    ELSE GroupDepth(re, i + 1,
                    IF re[i] = "(" THEN depth + 1
                    ELSE IF re[i] = ")" THEN depth - 1 ELSE depth)

Compiles(re) == GroupDepth(re, 1, 0) = 0

\* Does s from position j on match re from position i on, to the end of both?
\* re is made of literal characters, "." and a postfix "*".
RECURSIVE MatchHere(_, _, _, _)
MatchHere(re, i, s, j) ==
    IF i > Len(re) THEN j > Len(s)
    ELSE IF i < Len(re) /\ re[i + 1] = "*"
         THEN \/ MatchHere(re, i + 2, s, j)
              \/ IF j <= Len(s) /\ (re[i] = "." \/ re[i] = s[j])
                 THEN MatchHere(re, i, s, j + 1)
                 ELSE FALSE
    ELSE IF j <= Len(s) /\ (re[i] = "." \/ re[i] = s[j])
         THEN MatchHere(re, i + 1, s, j + 1)
    ELSE FALSE

\* regexp.MatchString("^"+regex+"$", s): [err, matches].
MatchString(regex, s) ==
    IF ~Compiles(Chars(regex)) THEN [err |-> TRUE, matches |-> FALSE]
    ELSE [err |-> FALSE, matches |-> MatchHere(Chars(regex), 1, Chars(s), 1)]

\* The fail funcs the client passes to NewAssert, and what each returns.
FailFuncs == {"false", "true", "trueForEqual"}
ApplyFailFunc(ff, test, obtained, expected, msg) ==
    CASE ff = "false" -> FALSE
      [] ff = "true" -> TRUE
      [] ff = "trueForEqual" -> test = "Equal"

\* NewAssert(ff)
NewAssert(ff) == [failFunc |-> ff]

\* The outcomes of a test method: [panic, val, calls], calls being the calls
\* of the fail func it made.
Passes == [panic |-> FALSE, val |-> TRUE, calls |-> <<>>]
MethodPanics == [panic |-> TRUE, val |-> <<>>, calls |-> <<>>]

\* return a.failFunc(test, obtained, expected, msg)
Fails(as, test, obtained, expected, msg) ==
    [panic |-> FALSE,
     val |-> ApplyFailFunc(as.failFunc, test, obtained, expected, msg),
     calls |-> <<[test |-> test, obtained |-> obtained,
                  expected |-> expected, msg |-> msg]>>]

CantCompile == "can't compile regex: "

\* Assert.True
AssertTrue(as, obtained, msg) ==
    IF obtained = FALSE THEN Fails(as, "True", obtained, TRUE, msg) ELSE Passes

\* Assert.False
AssertFalse(as, obtained, msg) ==
    IF obtained = TRUE THEN Fails(as, "False", obtained, FALSE, msg) ELSE Passes

\* Assert.Nil
AssertNil(as, obtained, msg) ==
    IF ~IsNil(obtained) THEN Fails(as, "Nil", obtained, NilInterface, msg) ELSE Passes

\* Assert.NotNil
AssertNotNil(as, obtained, msg) ==
    IF IsNil(obtained) THEN Fails(as, "NotNil", obtained, NilInterface, msg) ELSE Passes

\* Assert.Equal
AssertEqual(as, obtained, expected, msg) ==
    IF ~DeepEqual(obtained, expected)
    THEN Fails(as, "Equal", obtained, expected, msg) ELSE Passes

\* Assert.Different
AssertDifferent(as, obtained, expected, msg) ==
    IF DeepEqual(obtained, expected)
    THEN Fails(as, "Different", obtained, expected, msg) ELSE Passes

\* Assert.Matches
AssertMatches(as, obtained, regex, msg) ==
    LET m == MatchString(regex, obtained)
    IN  IF m.err THEN Fails(as, "Matches", obtained, regex, CantCompile)
        ELSE IF ~m.matches THEN Fails(as, "Matches", obtained, regex, msg)
        ELSE Passes

\* Assert.ErrorMatches: obtained.Error() on the nil error is a nil dereference.
AssertErrorMatches(as, obtained, regex, msg) ==
    IF obtained = NilInterface THEN MethodPanics
    ELSE LET m == MatchString(regex, obtained.val)
         IN  IF m.err THEN Fails(as, "ErrorMatches", obtained, regex, CantCompile)
             ELSE IF ~m.matches THEN Fails(as, "ErrorMatches", obtained, regex, msg)
             ELSE Passes

\* Assert.Implements
AssertImplements(as, obtained, expected, msg) ==
    IF KindOf(obtained.type) = "invalid"
    THEN Fails(as, "Implements", obtained, expected, "obtained value is invalid")
    ELSE IF \/ KindOf(expected.type) # "ptr"
            \/ expected.val = "nil"
            \/ KindOf(ElemOf(expected.type)) # "interface"
         THEN Fails(as, "Implements", obtained, expected,
                    "expected value is no interface variable pointer")
    ELSE IF ~TypeImplements(obtained.type, ElemOf(expected.type))
         THEN Fails(as, "Implements", obtained, expected, msg)
    ELSE Passes

\* Assert.Assignable: reflect.Value.Type panics on the zero Value that
\* reflect.ValueOf gives for the nil interface.
AssertAssignable(as, obtained, expected, msg) ==
    IF KindOf(obtained.type) = "invalid" \/ KindOf(expected.type) = "invalid"
    THEN MethodPanics
    ELSE IF ~TypeAssignableTo(obtained.type, expected.type)
         THEN Fails(as, "Assignable", obtained, expected, msg)
    ELSE Passes

\* Assert.Unassignable
AssertUnassignable(as, obtained, expected, msg) ==
    IF KindOf(obtained.type) = "invalid" \/ KindOf(expected.type) = "invalid"
    THEN MethodPanics
    ELSE IF TypeAssignableTo(obtained.type, expected.type)
         THEN Fails(as, "Unassignable", obtained, expected, msg)
    ELSE Passes

\* ------------------------------------------------------------------ inputs

XVals == {F(k) : k \in 0..MaxX}
YVals == {F(0), F(1)}
\* The x values the client evaluates at: the halves from -1/2 to MaxX + 1/2.
QVals == {Norm(k, 2) : k \in -1..(2 * MaxX + 1)}

CoefVals == {F(-1), F(1), F(2), F(3)}
CoefSeqs == UNION {[1..n -> CoefVals] : n \in 0..MaxCoef}
FromVals == {F(0), F(1)}
ToVals == {F(0), F(1), F(10)}
CountVals == {-2, -1, 1, 2, 3, 5}

LsfXVals == {F(0), F(1), F(2)}
LsfYVals == {F(k) : k \in 0..5}
LsfQVals == {F(0), Norm(1, 2), F(3)}
\* The point sets handed to NewLeastSquaresFunction and AppendPoints.
PointSet(ps) == [points |-> ps]
LsfPointSets == {PointSet(<<>>),
                 PointSet(<<NewPoint(F(1), F(0))>>),
                 PointSet(<<NewPoint(F(0), F(1)), NewPoint(F(2), F(0))>>),
                 PointSet(<<NewPoint(F(1), F(1)), NewPoint(F(1), F(1)),
                            NewPoint(F(0), F(0))>>)}
\* What a client does with a spline whose point set it goes on changing: the
\* x of the points it appends, and the x it evaluates at (below all knots,
\* within the first interval, just below MaxX, above MaxX).
MutXVals == {F(0), F(MaxX)}
MutQVals == {Norm(-1, 2), Norm(1, 2), Norm(2 * MaxX - 1, 2), Norm(2 * MaxX + 1, 2)}
\* The sets a client appends to the point set of a spline.
AppendSets == {PointSet(<<>>),
               PointSet(<<NewPoint(F(MaxX), F(0))>>),
               PointSet(<<NewPoint(F(0), F(1)), NewPoint(F(MaxX), F(0))>>)}
LsfFromVals == {F(0)}
LsfToVals == {F(0), F(2)}
LsfCountVals == {1, 2, 4}

\* The values the client hands to the test methods.
Values == {NilInterface,
           Value("bool", "true"), Value("int", "1"), Value("int", "5"),
           Value("string", "one"), Value("string", "nil"),
           Value("*bool", "nil"), Value("*errors.errorString", "ab"),
           Value("*error", "&err"), Value("*io.Writer", "&w")}
Strings == {"", "b", "ab", "aab"}
Regexes == {"ab", "a*b", ".*", "a.", "(ab"}
Errors == {NilInterface,
           Value("*errors.errorString", "ab"), Value("*errors.errorString", "aab")}
Msgs == {"should not fail"}

Returned(op, arg, val) == [op |-> op, arg |-> arg, val |-> val, panic |-> FALSE]
Panicked(op, arg) == [op |-> op, arg |-> arg, val |-> <<>>, panic |-> TRUE]

InitMode(m) ==
    /\ mode = m
    /\ points = <<>>
    /\ heap = <<>>
    /\ csf = Nil
    /\ build = Nil
    /\ pf = Nil
    /\ lsf = NewLsf
    /\ lsfPts = {}
    /\ lsfAppended = 0
    /\ sample = Nil
    /\ assertObj = Nil
    /\ ret = NoRet

\* ------------------------------------------------------------------ Points: actions

\* ps.AppendPoint(x, y) on the client's set.
AppendPoint(x, y) ==
    /\ mode \in {"points", "spline"}
    /\ build = Nil
    /\ Len(points) < MaxPts
    /\ points' = Append(points, NewPoint(x, y))
    /\ ret' = NoRet
    /\ UNCHANGED <<mode, assertObj, heap, csf, build, pf, lsf, lsfPts, lsfAppended, sample>>

\* ps.AppendPoints(aps) on the client's set.
AppendPoints(aps) ==
    /\ mode \in {"points", "spline"}
    /\ build = Nil
    /\ Len(points) + Len(aps.points) <= MaxPts
    /\ points' = points \o aps.points
    /\ ret' = NoRet
    /\ UNCHANGED <<mode, assertObj, heap, csf, build, pf, lsf, lsfPts, lsfAppended, sample>>

\* ps.Swap(i, j), i and j counted from 0.
Swap(i, j) ==
    /\ mode \in {"points", "spline"}
    /\ build = Nil
    /\ i < Len(points) /\ j < Len(points)
    /\ points' = [points EXCEPT ![i + 1] = points[j + 1], ![j + 1] = points[i + 1]]
    /\ ret' = NoRet
    /\ UNCHANGED <<mode, assertObj, heap, csf, build, pf, lsf, lsfPts, lsfAppended, sample>>

\* ps.XInRange(x); ps.points[0] of an empty set is an index panic.
CallXInRange(x) ==
    /\ mode = "points"
    /\ ret' = IF Len(points) = 0 THEN Panicked("XInRange", x)
              ELSE Returned("XInRange", x, XInRange(points, x))
    /\ UNCHANGED <<mode, assertObj, points, heap, csf, build, pf, lsf, lsfPts, lsfAppended, sample>>

\* ps.SearchNextIndex(x).
CallSearchNextIndex(x) ==
    /\ mode = "points"
    /\ ret' = Returned("SearchNextIndex", x, SearchNextIndex(points, x))
    /\ UNCHANGED <<mode, assertObj, points, heap, csf, build, pf, lsf, lsfPts, lsfAppended, sample>>

\* ps.Map(f): the receiver is passed by value and only read.
CallMap(f) ==
    /\ mode = "points"
    /\ ret' = Returned("Map", f, Map(points, f))
    /\ UNCHANGED <<mode, assertObj, points, heap, csf, build, pf, lsf, lsfPts, lsfAppended, sample>>

\* ------------------------------------------------------------------ CubicSplineFunction: actions

\* NewCubicSplineFunction(points) up to the loop that builds the polynomials:
\* the early return, or the coefficient arrays, make([]*PolynomialFunction,
\* intervals) and the one make([]float64, 4) that precedes the loop.
NewCubicSplineFunction ==
    /\ mode = "spline"
    /\ build = Nil /\ csf = Nil
    /\ IF Len(points) < 3
       THEN /\ ret' = Returned("NewCubicSplineFunction", <<>>, Nil)
            /\ UNCHANGED <<heap, build>>
       ELSE LET bcd == SplineCoefficients(points)
            IN  /\ heap' = Append(heap, <<F(0), F(0), F(0), F(0)>>)
                /\ build' = [i |-> 0, b |-> bcd[1], c |-> bcd[2], d |-> bcd[3],
                             polynomials |-> [k \in 0..(Len(points) - 2) |-> Nil],
                             coefficients |-> Len(heap) + 1]
                /\ ret' = NoRet
    /\ UNCHANGED <<mode, assertObj, points, csf, pf, lsf, lsfPts, lsfAppended, sample>>

\* One iteration of the loop that builds the polynomials: the four writes to
\* coefficients, then NewPolynomialFunction(coefficients).
WriteCoefficients(h, a, ps, b) ==
    [h EXCEPT ![a] = <<YAt(ps, b.i), b.b[b.i], b.c[b.i], b.d[b.i]>>]

BuildPolynomial ==
    /\ mode = "spline"
    /\ build # Nil
    /\ build.i < Len(points) - 1
    /\ LET h == WriteCoefficients(heap, build.coefficients, points, build)
       IN  /\ heap' = h
           /\ build' = [build EXCEPT
                          !.polynomials[build.i] =
                               NewPolynomialFunction(h, build.coefficients),
                          !.i = build.i + 1]
    /\ UNCHANGED <<mode, assertObj, points, csf, pf, lsf, lsfPts, lsfAppended, sample, ret>>

\* return csf
ReturnSpline ==
    /\ mode = "spline"
    /\ build # Nil
    /\ build.i >= Len(points) - 1
    /\ csf' = [polynomials |-> build.polynomials]
    /\ build' = Nil
    /\ ret' = Returned("NewCubicSplineFunction", <<>>, csf')
    /\ UNCHANGED <<mode, assertObj, points, heap, pf, lsf, lsfPts, lsfAppended, sample>>

\* csf.Eval(x); csf.points is the client's point set.
CallCsfEval(x) ==
    /\ mode = "spline"
    /\ csf # Nil
    /\ LET r == CsfEval(heap, csf, points, x)
       IN  ret' = IF r.panic THEN Panicked("CubicSplineFunction.Eval", x)
                  ELSE Returned("CubicSplineFunction.Eval", x, r.val)
    /\ UNCHANGED <<mode, assertObj, points, heap, csf, build, pf, lsf, lsfPts, lsfAppended, sample>>

\* The client of a spline appends its knots by ascending x (equal x included).
AscendingAppend(x) ==
    IF Len(points) = 0 THEN TRUE ELSE ~FLt(x, XAt(points, Len(points) - 1))

NextSpline ==
    \/ \E x \in XVals, y \in YVals :
          csf = Nil /\ AscendingAppend(x) /\ AppendPoint(x, y)
    \/ NewCubicSplineFunction
    \/ BuildPolynomial
    \/ ReturnSpline
    \/ \E x \in QVals : CallCsfEval(x)

SpecSpline == InitMode("spline") /\ [][NextSpline]_vars

\* The client appends knots with strictly ascending x.
StrictlyAscendingAppend(x) ==
    IF Len(points) = 0 THEN TRUE ELSE FLt(XAt(points, Len(points) - 1), x)

\* The client builds a spline on knots with strictly ascending x and then goes
\* on changing the point set the spline was built from.
NextSplineMut ==
    \/ \E x \in XVals, y \in YVals :
          csf = Nil /\ StrictlyAscendingAppend(x) /\ AppendPoint(x, y)
    \/ NewCubicSplineFunction
    \/ BuildPolynomial
    \/ ReturnSpline
    \/ \E x \in MutQVals : CallCsfEval(x)
    \/ \E x \in MutXVals : csf # Nil /\ AppendPoint(x, F(1))
    \/ \E aps \in AppendSets : csf # Nil /\ AppendPoints(aps)
    \/ csf # Nil /\ Swap(0, Len(points) - 1)

SpecSplineMut == InitMode("spline") /\ [][NextSplineMut]_vars

NextPoints ==
    \/ \E x \in XVals : AppendPoint(x, F(1))
    \/ \E i \in 0..(MaxPts - 1), j \in 0..(MaxPts - 1) : Swap(i, j)
    \/ \E x \in QVals : CallXInRange(x)
    \/ \E x \in QVals : CallSearchNextIndex(x)
    \/ \E f \in MapFuncs : CallMap(f)


SpecPoints == InitMode("points") /\ [][NextPoints]_vars


\* ------------------------------------------------------------------ PolynomialFunction: actions

\* NewPolynomialFunction(coefficients) on a slice the client has just made (the
\* slice of a failed earlier call is dropped); the client builds one polynomial.
CallNewPolynomialFunction(coefficients) ==
    /\ mode = "poly"
    /\ pf = Nil
    /\ heap' = <<coefficients>>
    /\ pf' = NewPolynomialFunction(heap', 1)
    /\ ret' = Returned("NewPolynomialFunction", coefficients, pf')
    /\ UNCHANGED <<mode, assertObj, points, csf, build, lsf, lsfPts, lsfAppended, sample>>

\* pf.Eval(x)
CallPolyEval(x) ==
    /\ mode = "poly"
    /\ pf # Nil /\ sample = Nil
    /\ ret' = Returned("PolynomialFunction.Eval", x,
                       PolyEval(heap[pf.coefficients], x))
    /\ UNCHANGED <<mode, assertObj, points, heap, csf, build, pf, lsf, lsfPts, lsfAppended, sample>>

\* pf.Differentiate(): the new coefficients go to a new slice (address 2; the
\* slice of an earlier result is dropped).
CallDifferentiate ==
    /\ mode = "poly"
    /\ pf # Nil /\ sample = Nil
    /\ heap' = <<heap[1], Differentiate(heap[pf.coefficients])>>
    /\ ret' = Returned("Differentiate", <<>>, NewPolynomialFunction(heap', 2))
    /\ UNCHANGED <<mode, assertObj, points, csf, build, pf, lsf, lsfPts, lsfAppended, sample>>

\* The Function f that EvalPoints hands to evalPoints is the receiver: the
\* client's polynomial or its least squares function.
FunctionReady == (mode = "poly" /\ pf # Nil) \/ mode = "lsf"
FunctionEval(x) ==
    IF mode = "lsf" THEN LsfEval(lsf, x) ELSE PolyEval(heap[pf.coefficients], x)
EvalPointsOp ==
    IF mode = "lsf" THEN "LeastSquaresFunction.EvalPoints" ELSE "EvalPoints"

\* f.EvalPoints(fromX, toX, count) up to the loop of evalPoints: the interval
\* and NewPoints(int(interval)), whose make panics on a negative capacity.
CallEvalPoints(fromX, toX, count) ==
    /\ FunctionReady
    /\ sample = Nil
    /\ LET interval == Interval(fromX, toX, count)
       IN  IF Trunc(interval) < 0
           THEN /\ ret' = Panicked(EvalPointsOp, <<fromX, toX, count>>)
                /\ UNCHANGED sample
           ELSE /\ sample' = [x |-> fromX, toX |-> toX, interval |-> interval,
                              points |-> <<>>, arg |-> <<fromX, toX, count>>]
                /\ ret' = NoRet
    /\ UNCHANGED <<mode, assertObj, points, heap, csf, build, pf, lsf, lsfPts, lsfAppended>>

\* One iteration of the loop of evalPoints (followed MaxSamples times at most).
SampleStep ==
    /\ sample # Nil
    /\ SampleContinues(sample)
    /\ Len(sample.points) < MaxSamples
    /\ LET y == FunctionEval(sample.x)
       IN  sample' = [sample EXCEPT
                        !.points = Append(@, NewPoint(sample.x, y)),
                        !.x = FAdd(@, sample.interval)]
    /\ UNCHANGED <<mode, assertObj, points, heap, csf, build, pf, lsf, lsfPts, lsfAppended, ret>>

\* The loop of evalPoints ends: return points.
SampleReturn ==
    /\ sample # Nil
    /\ ~SampleContinues(sample)
    /\ ret' = Returned(EvalPointsOp, sample.arg, sample.points)
    /\ sample' = Nil
    /\ UNCHANGED <<mode, assertObj, points, heap, csf, build, pf, lsf, lsfPts, lsfAppended>>

NextPoly ==
    \/ \E cs \in CoefSeqs : CallNewPolynomialFunction(cs)
    \/ \E x \in QVals : CallPolyEval(x)
    \/ CallDifferentiate
    \/ \E fromX \in FromVals, toX \in ToVals, count \in CountVals :
          CallEvalPoints(fromX, toX, count)
    \/ SampleStep
    \/ SampleReturn

SpecPoly == InitMode("poly") /\ [][NextPoly]_vars

\* The client builds either a spline or a polynomial.
NextCtor == NextSpline \/ NextPoly

SpecCtor ==
    /\ \E m \in {"spline", "poly"} : InitMode(m)
    /\ [][NextCtor]_vars

\* ------------------------------------------------------------------ LeastSquaresFunction: actions

\* lsf.AppendPoint(x, y) (followed for the first MaxCount points).
CallLsfAppendPoint(x, y) ==
    /\ mode = "lsf"
    /\ sample = Nil
    /\ lsf.count < MaxCount
    /\ lsf' = LsfAppendPoint(lsf, x, y)
    /\ lsfPts' = lsfPts \cup {NewPoint(x, y)}
    /\ lsfAppended' = lsfAppended + 1
    /\ ret' = NoRet
    /\ UNCHANGED <<mode, assertObj, points, heap, csf, build, pf, sample>>

\* lsf.Eval(x)
CallLsfEval(x) ==
    /\ mode = "lsf"
    /\ sample = Nil
    /\ ret' = Returned("LeastSquaresFunction.Eval", x, LsfEval(lsf, x))
    /\ UNCHANGED <<mode, assertObj, points, heap, csf, build, pf, lsf, lsfPts, lsfAppended, sample>>

NextLsf ==
    \/ \E x \in LsfXVals, y \in LsfYVals : CallLsfAppendPoint(x, y)
    \/ \E x \in LsfQVals : CallLsfEval(x)

SpecLsf == InitMode("lsf") /\ [][NextLsf]_vars

\* lsf.AppendPoints(pts) (followed while the count stays within MaxCount).
CallLsfAppendPoints(pts) ==
    /\ mode = "lsf"
    /\ sample = Nil
    /\ lsf.count + Len(pts.points) <= MaxCount
    /\ lsf' = LsfAppendPoints(lsf, pts)
    /\ lsfPts' = lsfPts \cup {pts.points[k] : k \in 1..Len(pts.points)}
    /\ lsfAppended' = lsfAppended + Len(pts.points)
    /\ ret' = NoRet
    /\ UNCHANGED <<mode, assertObj, points, heap, csf, build, pf, sample>>

\* lsf.EvalPoint(x)
CallLsfEvalPoint(x) ==
    /\ mode = "lsf"
    /\ sample = Nil
    /\ ret' = Returned("LeastSquaresFunction.EvalPoint", x, LsfEvalPoint(lsf, x))
    /\ UNCHANGED <<mode, assertObj, points, heap, csf, build, pf, lsf, lsfPts, lsfAppended, sample>>

\* lsf := NewLeastSquaresFunction(pts), pts being nil or a set.
InitLsf(pts) ==
    /\ mode = "lsf"
    /\ points = <<>>
    /\ heap = <<>>
    /\ csf = Nil
    /\ build = Nil
    /\ pf = Nil
    /\ lsf = NewLeastSquaresFunction(pts)
    /\ lsfPts = (IF pts # Nil THEN {pts.points[k] : k \in 1..Len(pts.points)} ELSE {})
    /\ lsfAppended = (IF pts # Nil THEN Len(pts.points) ELSE 0)
    /\ sample = Nil
    /\ assertObj = Nil
    /\ ret = NoRet

\* The client of a least squares function uses every method of it.
NextLsfCalls ==
    \/ \E x \in LsfXVals, y \in YVals : CallLsfAppendPoint(x, y)
    \/ \E pts \in LsfPointSets : CallLsfAppendPoints(pts)
    \/ \E x \in LsfQVals : CallLsfEval(x)
    \/ \E x \in LsfQVals : CallLsfEvalPoint(x)
    \/ \E fromX \in LsfFromVals, toX \in LsfToVals, count \in LsfCountVals :
          CallEvalPoints(fromX, toX, count)
    \/ SampleStep
    \/ SampleReturn

SpecLsfCalls ==
    /\ \E pts \in {Nil} \cup LsfPointSets : InitLsf(pts)
    /\ [][NextLsfCalls]_vars

\* ------------------------------------------------------------------ assert: actions

\* a := NewAssert(ff)
CallNewAssert(ff) ==
    /\ mode = "assert"
    /\ assertObj = Nil
    /\ assertObj' = NewAssert(ff)
    /\ ret' = NoRet
    /\ UNCHANGED <<mode, points, heap, csf, build, pf, lsf, lsfPts, lsfAppended, sample>>

\* A test method of a was called with arg and had the outcome r.
MethodCalled(op, arg, r) ==
    /\ mode = "assert"
    /\ assertObj # Nil
    /\ ret' = IF r.panic THEN Panicked(op, arg)
              ELSE Returned(op, arg, [result |-> r.val, calls |-> r.calls])
    /\ UNCHANGED <<mode, assertObj, points, heap, csf, build, pf, lsf, lsfPts, lsfAppended, sample>>

CallTrue(obtained, msg) ==
    MethodCalled("True", [obtained |-> obtained, msg |-> msg],
                 AssertTrue(assertObj, obtained, msg))

CallFalse(obtained, msg) ==
    MethodCalled("False", [obtained |-> obtained, msg |-> msg],
                 AssertFalse(assertObj, obtained, msg))

CallNil(obtained, msg) ==
    MethodCalled("Nil", [obtained |-> obtained, msg |-> msg],
                 AssertNil(assertObj, obtained, msg))

CallNotNil(obtained, msg) ==
    MethodCalled("NotNil", [obtained |-> obtained, msg |-> msg],
                 AssertNotNil(assertObj, obtained, msg))

CallEqual(obtained, expected, msg) ==
    MethodCalled("Equal", [obtained |-> obtained, expected |-> expected, msg |-> msg],
                 AssertEqual(assertObj, obtained, expected, msg))

CallDifferent(obtained, expected, msg) ==
    MethodCalled("Different", [obtained |-> obtained, expected |-> expected, msg |-> msg],
                 AssertDifferent(assertObj, obtained, expected, msg))

CallMatches(obtained, regex, msg) ==
    MethodCalled("Matches", [obtained |-> obtained, expected |-> regex, msg |-> msg],
                 AssertMatches(assertObj, obtained, regex, msg))

CallErrorMatches(obtained, regex, msg) ==
    MethodCalled("ErrorMatches", [obtained |-> obtained, expected |-> regex, msg |-> msg],
                 AssertErrorMatches(assertObj, obtained, regex, msg))

CallImplements(obtained, expected, msg) ==
    MethodCalled("Implements", [obtained |-> obtained, expected |-> expected, msg |-> msg],
                 AssertImplements(assertObj, obtained, expected, msg))

CallAssignable(obtained, expected, msg) ==
    MethodCalled("Assignable", [obtained |-> obtained, expected |-> expected, msg |-> msg],
                 AssertAssignable(assertObj, obtained, expected, msg))

CallUnassignable(obtained, expected, msg) ==
    MethodCalled("Unassignable", [obtained |-> obtained, expected |-> expected, msg |-> msg],
                 AssertUnassignable(assertObj, obtained, expected, msg))

NextAssert ==
    \/ \E ff \in FailFuncs : CallNewAssert(ff)
    \/ \E obtained \in BOOLEAN, msg \in Msgs : CallTrue(obtained, msg)
    \/ \E obtained \in BOOLEAN, msg \in Msgs : CallFalse(obtained, msg)
    \/ \E obtained \in Values, msg \in Msgs : CallNil(obtained, msg)
    \/ \E obtained \in Values, msg \in Msgs : CallNotNil(obtained, msg)
    \/ \E obtained \in Values, expected \in Values, msg \in Msgs :
          CallEqual(obtained, expected, msg)
    \/ \E obtained \in Values, expected \in Values, msg \in Msgs :
          CallDifferent(obtained, expected, msg)
    \/ \E obtained \in Strings, regex \in Regexes, msg \in Msgs :
          CallMatches(obtained, regex, msg)
    \/ \E obtained \in Errors, regex \in Regexes, msg \in Msgs :
          CallErrorMatches(obtained, regex, msg)
    \/ \E obtained \in Values, expected \in Values, msg \in Msgs :
          CallImplements(obtained, expected, msg)
    \/ \E obtained \in Values, expected \in Values, msg \in Msgs :
          CallAssignable(obtained, expected, msg)
    \/ \E obtained \in Values, expected \in Values, msg \in Msgs :
          CallUnassignable(obtained, expected, msg)

SpecAssert == InitMode("assert") /\ [][NextAssert]_vars

\* ------------------------------------------------------------------ properties

\* Reference definitions the results are compared with.
Indices(ps) == 0..(Len(ps) - 1)
StrictlyAscending(ps) ==
    \A k \in Indices(ps) : k + 1 < Len(ps) => FLt(XAt(ps, k), XAt(ps, k + 1))
SortedByX(ps) ==
    \A k \in Indices(ps) : k + 1 < Len(ps) => FLe(XAt(ps, k), XAt(ps, k + 1))
BelowAll(ps, x) == \A k \in Indices(ps) : FLt(x, XAt(ps, k))
AboveAll(ps, x) == \A k \in Indices(ps) : FLt(XAt(ps, k), x)

\* C1 (as claimed): a spline built from n >= 3 knots with strictly ascending x
\* evaluates to exactly y_k at every knot x_k.
C1_EvalAtKnotIsKnotY ==
    (ret.op = "CubicSplineFunction.Eval" /\ csf # Nil /\ StrictlyAscending(points)) =>
        \A k \in Indices(points) :
            ret.arg = XAt(points, k) => (~ret.panic /\ ret.val = YAt(points, k))

\* C2: Eval(x) panics for every x strictly below the smallest or strictly above
\* the largest knot x, and returns a value for every x between them (inclusive).
C2_EvalPanicsIffOutOfRange ==
    ret.op = "CubicSplineFunction.Eval" =>
        /\ ret.panic <=> (BelowAll(points, ret.arg) \/ AboveAll(points, ret.arg))
        /\ ~ret.panic => ret.val \in (Int \X Int)

C2_Witness ==
    /\ ret.op = "CubicSplineFunction.Eval" /\ ret.panic
    /\ Len(points) = 4 /\ StrictlyAscending(points)
    /\ AboveAll(points, ret.arg)

\* C6: on a set sorted by ascending x, SearchNextIndex(x) is the leftmost index
\* whose point has a larger x, Len() if there is none: every point below the
\* result has x_k <= x and every point at or above it has x_k > x.
C6_SearchNextIndexIsUpperBound ==
    (ret.op = "SearchNextIndex" /\ SortedByX(points)) =>
        /\ ret.val \in 0..Len(points)
        /\ \A k \in Indices(points) :
              IF k < ret.val THEN FLe(XAt(points, k), ret.arg)
              ELSE FLt(ret.arg, XAt(points, k))

C6_Witness ==
    /\ ret.op = "SearchNextIndex" /\ ret.arg = Norm(3, 2) /\ ret.val = 2
    /\ Len(points) = 4 /\ StrictlyAscending(points)

\* C7: on a non-empty set in any order, XInRange(x) is true iff
\* min x_k <= x <= max x_k, and the call leaves the set as it was.
C7_RangeIsMinMax ==
    (ret.op = "XInRange" /\ Len(points) > 0) =>
        /\ ~ret.panic
        /\ ret.val <=> (/\ \E k \in Indices(points) : FLe(XAt(points, k), ret.arg)
                        /\ \E k \in Indices(points) : FLe(ret.arg, XAt(points, k)))

C7_XInRangeMinMaxAndPure ==
    /\ []C7_RangeIsMinMax
    /\ [][ret'.op = "XInRange" /\ ret' # ret => points' = points]_vars

C7_Witness ==
    /\ ret.op = "XInRange" /\ ~ret.panic /\ ret.val = TRUE
    /\ Len(points) = 4 /\ ~SortedByX(points)
    /\ \E k \in Indices(points) : FLt(ret.arg, XAt(points, k))
    /\ \E k \in Indices(points) : FLt(XAt(points, k), ret.arg)
    /\ \E j, k \in Indices(points) : j # k /\ XAt(points, j) = XAt(points, k)

\* x^k by repeated multiplication.
RECURSIVE FPow(_, _)
FPow(x, k) == IF k = 0 THEN F(1) ELSE FMul(x, FPow(x, k - 1))

\* The sum over i in from..Len(c)-1 of Term(i), for float64 terms.
RECURSIVE PowerSum(_, _, _)
PowerSum(c, x, i) ==
    IF i >= Len(c) THEN F(0)
    ELSE FAdd(FMul(c[i + 1], FPow(x, i)), PowerSum(c, x, i + 1))

RECURSIVE DerivativeSum(_, _, _)
DerivativeSum(c, x, i) ==
    IF i >= Len(c) THEN F(0)
    ELSE FAdd(FMul(FMul(F(i), c[i + 1]), FPow(x, i - 1)), DerivativeSum(c, x, i + 1))

\* C5: for fromX < toX and count >= 1, EvalPoints returns exactly count points,
\* the k-th at x = fromX + k*step with y = f.Eval(x), ascending, none at toX.
C5_EvalPointsSamples ==
    (ret.op = "EvalPoints" /\ FLt(ret.arg[1], ret.arg[2]) /\ ret.arg[3] >= 1) =>
        LET fromX == ret.arg[1]
            toX == ret.arg[2]
            count == ret.arg[3]
            step == Norm(toX[1] * fromX[2] - fromX[1] * toX[2],
                         toX[2] * fromX[2] * count)
            xk(k) == FAdd(fromX, FMul(F(k), step))
        IN  /\ ~ret.panic
            /\ Len(ret.val) = count
            /\ \A k \in 0..(count - 1) :
                  /\ At(ret.val, k).x = xk(k)
                  /\ At(ret.val, k).y = PowerSum(heap[pf.coefficients], xk(k), 0)
                  /\ FLt(At(ret.val, k).x, toX)
                  /\ k > 0 => FLt(At(ret.val, k - 1).x, At(ret.val, k).x)

C5_Witness ==
    /\ ret.op = "EvalPoints" /\ ~ret.panic
    /\ ret.arg = <<F(0), F(10), 5>>
    /\ Len(heap[pf.coefficients]) = 3
    /\ [k \in 1..Len(ret.val) |-> ret.val[k].x] = <<F(0), F(2), F(4), F(6), F(8)>>

\* C8: Eval(x) of the polynomial with coefficients c0..cn equals the sum of
\* ci * x^i; a polynomial of one coefficient evaluates to c0 at every x.
C8_EvalIsPowerSum ==
    ret.op = "PolynomialFunction.Eval" =>
        LET c == heap[pf.coefficients]
        IN  /\ ret.val = PowerSum(c, ret.arg, 0)
            /\ Len(c) = 1 => ret.val = c[1]

C8_Witness ==
    /\ ret.op = "PolynomialFunction.Eval"
    /\ heap[pf.coefficients] = <<F(1), F(2), F(3)>>
    /\ ret.arg = Norm(3, 2)
    /\ ret.val = Norm(43, 4)

\* C9: Differentiate() of m >= 2 coefficients returns a new polynomial of m-1
\* coefficients, coefficient i-1 being i * c[i]; of one coefficient, [0.0]; the
\* result evaluates to the derivative and the receiver is unchanged.
C9_DerivativeCoefficients ==
    ret.op = "Differentiate" =>
        LET c == heap[pf.coefficients]
            m == Len(c)
        IN  /\ ret.val # Nil
            /\ ret.val.coefficients # pf.coefficients
            /\ LET r == heap[ret.val.coefficients]
               IN  /\ m >= 2 => /\ Len(r) = m - 1
                                /\ \A i \in 1..(m - 1) : r[i] = FMul(F(i), c[i + 1])
                   /\ m = 1 => r = <<F(0)>>
                   /\ \A x \in QVals : PolyEval(r, x) = DerivativeSum(c, x, 1)

C9_DifferentiateIsDerivative ==
    /\ []C9_DerivativeCoefficients
    /\ [][ret'.op = "Differentiate" =>
            /\ pf' = pf
            /\ heap'[pf.coefficients] = heap[pf.coefficients]]_vars

C9_Witness ==
    /\ ret.op = "Differentiate"
    /\ heap[pf.coefficients] = <<F(1), F(2), F(3)>>
    /\ heap[ret.val.coefficients] = <<F(2), F(6)>>

\* C10: NewCubicSplineFunction returns nil iff the set has fewer than 3 points
\* and NewPolynomialFunction returns nil iff the coefficient list is empty; a
\* failing call returns no partly built object and leaves its input as it was.
C10_NilIffTooFew ==
    /\ ret.op = "NewCubicSplineFunction" =>
          /\ ret.val = Nil <=> Len(points) < 3
          /\ ret.val = csf
    /\ ret.op = "NewPolynomialFunction" =>
          /\ ret.val = Nil <=> Len(ret.arg) = 0
          /\ ret.val = pf

C10_ConstructionErrors ==
    /\ []C10_NilIffTooFew
    /\ [][(ret' # ret /\ ret'.op = "NewCubicSplineFunction" /\ ret'.val = Nil) =>
            (points' = points /\ csf' = Nil /\ heap' = heap)]_vars
    /\ [][(ret'.op = "NewPolynomialFunction" /\ ret'.val = Nil) =>
            (heap'[1] = ret'.arg /\ pf' = Nil)]_vars

C10_Witness ==
    /\ ret.op = "NewCubicSplineFunction" /\ ret.val = Nil
    /\ Len(points) = 2 /\ csf = Nil /\ heap = <<>>

\* The lines y = a*x + b the appended points may lie on.
SlopeVals == {F(-1), F(0), F(1), F(2), Norm(1, 2)}
InterceptVals == {F(k) : k \in 0..5}
OnLine(p, a, b) == p.y = FAdd(FMul(a, p.x), b)
DistinctX(pts) == \E p, q \in pts : p.x # q.x

\* C3: after n >= 2 points, in any order, that all lie on y = a*x + b and have
\* two distinct x values, slope() = a and intercept(slope()) = b, so
\* Eval(x) = a*x + b.
C3_ExactLineIsRecovered ==
    \A a \in SlopeVals, b \in InterceptVals :
        (/\ lsf.count >= 2
         /\ DistinctX(lsfPts)
         /\ \A p \in lsfPts : OnLine(p, a, b)) =>
            /\ Slope(lsf) = a
            /\ Intercept(lsf, Slope(lsf)) = b
            /\ ret.op = "LeastSquaresFunction.Eval" =>
                  ret.val = FAdd(FMul(a, ret.arg), b)

C3_Witness ==
    /\ lsf.count = 4
    /\ lsfPts = {NewPoint(F(0), F(1)), NewPoint(F(1), F(3)), NewPoint(F(2), F(5))}
    /\ ret.op = "LeastSquaresFunction.Eval" /\ ret.arg = F(3) /\ ret.val = F(7)

\* C4: slope() is NaN after zero or one point and whenever all appended points
\* share one x; it is a number once two points with distinct x were appended.
C4_SlopeNaNIffDegenerate ==
    /\ IsNaN(Slope(lsf)) <=> (lsf.count < 2 \/ ~DistinctX(lsfPts))
    /\ ~IsNaN(Slope(lsf)) => Slope(lsf)[2] # 0
    /\ ret.op = "LeastSquaresFunction.Eval" =>
          (IsNaN(ret.val) <=> IsNaN(Slope(lsf)))

C4_Witness ==
    /\ lsf.count = 3
    /\ Cardinality(lsfPts) = 3
    /\ ~DistinctX(lsfPts)
    /\ ret.op = "LeastSquaresFunction.Eval" /\ IsNaN(ret.val)

\* The points of ps, in order, for which f yields a point.
Retained(ps, f) == SelectSeq(ps, LAMBDA p : ApplyMapFunc(f, p) # Nil)

\* C11: Map(f) calls f once per point, in order, and returns a set holding, in
\* the original order, exactly the original points for which f yielded a point
\* (the original point, not the one f yielded); the receiver is unchanged.
C11_MapResult ==
    ret.op = "Map" =>
        /\ ~ret.panic
        /\ ret.val.calls = points
        /\ ret.val.points = Retained(points, ret.arg)

TestMethods == {"True", "False", "Nil", "NotNil", "Equal", "Different", "Matches",
                "ErrorMatches", "Implements", "Assignable", "Unassignable"}

\* Is v the nil interface or a nil pointer?
IsNilValue(v) == v = NilInterface \/ (KindOf(v.type) = "ptr" /\ v.val = "nil")

\* Is the value v of a type that has every method of the interface that the
\* pointer e points to?
ImplementsInterface(v, e) ==
    /\ v # NilInterface
    /\ e.type \in {"*error", "*io.Writer"} /\ e.val # "nil"
    /\ MethodSet(ElemOf(e.type)) \subseteq MethodSet(v.type)

\* May a value of v's type be assigned to a variable of e's type?
AssignableValues(v, e) == v # NilInterface /\ e # NilInterface /\ v.type = e.type

\* Does the text s match the whole regular expression regex?
TextMatches(s, regex) ==
    Compiles(Chars(regex)) /\ MatchHere(Chars(regex), 1, Chars(s), 1)

\* The condition the test method op tests on the arguments arg.
TestedCondition(op, arg) ==
    CASE op = "True" -> arg.obtained = TRUE
      [] op = "False" -> arg.obtained = FALSE
      [] op = "Nil" -> IsNilValue(arg.obtained)
      [] op = "NotNil" -> ~IsNilValue(arg.obtained)
      [] op = "Equal" -> arg.obtained = arg.expected
      [] op = "Different" -> arg.obtained # arg.expected
      [] op = "Matches" -> TextMatches(arg.obtained, arg.expected)
      [] op = "ErrorMatches" -> /\ arg.obtained # NilInterface
                                /\ TextMatches(arg.obtained.val, arg.expected)
      [] op = "Implements" -> ImplementsInterface(arg.obtained, arg.expected)
      [] op = "Assignable" -> AssignableValues(arg.obtained, arg.expected)
      [] op = "Unassignable" -> ~AssignableValues(arg.obtained, arg.expected)

\* C12 (as claimed): a test method whose condition holds returns true without
\* calling the fail func; one whose condition does not hold calls the fail func
\* exactly once, with its Test kind and the obtained value, and returns what
\* the fail func returned.
C12_FailFuncProtocol ==
    ret.op \in TestMethods =>
        /\ ~ret.panic
        /\ IF TestedCondition(ret.op, ret.arg)
           THEN ret.val.result = TRUE /\ ret.val.calls = <<>>
           ELSE /\ Len(ret.val.calls) = 1
                /\ ret.val.calls[1].test = ret.op
                /\ ret.val.calls[1].obtained = ret.arg.obtained
                /\ ret.val.result =
                      ApplyFailFunc(assertObj.failFunc, ret.op, ret.arg.obtained,
                                    ret.val.calls[1].expected, ret.val.calls[1].msg)

\* C13 (as claimed): on a spline of n >= 3 knots with strictly ascending x,
\* Eval(x) for x_i <= x < x_{i+1} is polynomial i evaluated at x - x_i, and
\* Eval at the final knot is polynomial n-2 evaluated at x - x_{n-2}.
C13_EvalUsesOwningInterval ==
    (ret.op = "CubicSplineFunction.Eval" /\ ~ret.panic /\ StrictlyAscending(points)) =>
        LET n == Len(points)
            x == ret.arg
        IN  \A i \in 0..(n - 2) :
               (/\ FLe(XAt(points, i), x)
                /\ \/ FLt(x, XAt(points, i + 1))
                   \/ (i = n - 2 /\ x = XAt(points, n - 1))) =>
                   ret.val = PolyEval(heap[csf.polynomials[i].coefficients],
                                      FSub(x, XAt(points, i)))

\* C14 (as claimed): a spline returned for n >= 3 knots holds n-1 polynomials,
\* polynomial i with the coefficients [y[i], b[i], c[i], d[i]] of interval i,
\* and building a later polynomial leaves the coefficients of the polynomials
\* built before as they were.
C14_OwnCoefficients ==
    (ret.op = "NewCubicSplineFunction" /\ ret.val # Nil) =>
        LET n == Len(points)
            bcd == SplineCoefficients(points)
        IN  /\ DOMAIN csf.polynomials = 0..(n - 2)
            /\ \A i \in 0..(n - 2) :
                  /\ csf.polynomials[i] # Nil
                  /\ heap[csf.polynomials[i].coefficients] =
                        <<YAt(points, i), bcd[1][i], bcd[2][i], bcd[3][i]>>

C14_PolynomialsKeepCoefficients ==
    /\ []C14_OwnCoefficients
    /\ [][(build # Nil /\ build' # Nil /\ build'.i = build.i + 1) =>
            \A k \in 0..(build.i - 1) :
                heap'[build.polynomials[k].coefficients] =
                    heap[build.polynomials[k].coefficients]]_vars

\* The calls of a least squares function that evaluate it.
LsfEvalOps == {"LeastSquaresFunction.Eval", "LeastSquaresFunction.EvalPoint",
               "LeastSquaresFunction.EvalPoints"}

\* C15: count is the number of points appended so far, by AppendPoint, by
\* AppendPoints (one per member) or by NewLeastSquaresFunction with a set; it
\* never decreases, and Eval, EvalPoint and EvalPoints change no accumulator.
C15_CountIsAppended == lsf.count = lsfAppended

C15_CountGrowsEvalReadsOnly ==
    /\ []C15_CountIsAppended
    /\ [][lsf'.count >= lsf.count]_vars
    /\ [][(sample # Nil \/ sample' # Nil \/ ret'.op \in LsfEvalOps) => lsf' = lsf]_vars

C15_Witness ==
    /\ ret.op = "LeastSquaresFunction.EvalPoints" /\ Len(ret.val) = 4
    /\ lsf.count = 4 /\ lsfAppended = 4
    /\ Cardinality(lsfPts) = 3
    /\ ~IsNaN(Slope(lsf))

\* C16 (as claimed): once a spline is built, AppendPoint, AppendPoints and Swap
\* on the point set it was built from leave the outcome of Eval(x), value or
\* domain error, as it was, for every x.
C16_EvalUnchangedByMutation ==
    [][(csf # Nil /\ csf' = csf /\ points' # points) =>
          \A x \in QVals :
              CsfEval(heap', csf', points', x) = CsfEval(heap, csf, points, x)]_vars

\* C16 (amended): the spline's own state, its polynomials and their
\* coefficients, is never changed once built, neither by changes of the point
\* set nor by Eval, and Eval changes nothing; but Eval reads the point set as
\* it is at the call: it is a domain error iff x is below or above every x of
\* the current set.
C16_DomainIsCurrentSet ==
    ret.op = "CubicSplineFunction.Eval" =>
        (ret.panic <=> (BelowAll(points, ret.arg) \/ AboveAll(points, ret.arg)))

C16_SplineStateFixedSetReadAtCall ==
    /\ []C16_DomainIsCurrentSet
    /\ [][csf # Nil => (csf' = csf /\ heap' = heap)]_vars
    /\ [][ret'.op = "CubicSplineFunction.Eval" => points' = points]_vars

C16_Witness ==
    /\ csf # Nil
    /\ Len(points) = Cardinality(DOMAIN csf.polynomials) + 2
    /\ StrictlyAscending(points)
    /\ ret.op = "CubicSplineFunction.Eval" /\ ~ret.panic
    /\ FLt(XAt(points, Len(points) - 2), ret.arg)

\* C17 (as claimed): EvalPoints ends for every finite fromX, toX and non-zero
\* count.  Whenever the loop of evalPoints is to run once more, its step is
\* positive, so x comes closer to toX by a fixed amount and the iterations left
\* are bounded; and for toX <= fromX the call returns the empty set.
C17_EvalPointsTerminates ==
    /\ (sample # Nil /\ SampleContinues(sample)) => FLt(F(0), sample.interval)
    /\ (ret.op = "EvalPoints" /\ FLe(ret.arg[2], ret.arg[1])) =>
          (~ret.panic /\ ret.val = <<>>)

====
